---- MODULE Spec2Model ----
(***************************************************************************)
(* vndbjs-core: a rate-limited Dispatcher (class Vndb) that sends commands *)
(* over pooled, TLS-secured, logged-in Connections.                        *)
(*                                                                         *)
(* The model follows the event loop of the program: one action is one      *)
(* callback (a transport event, a timer, a call of the public API) run to  *)
(* completion together with the promise continuations it wakes.            *)
(*                                                                         *)
(* The pool (package generic-pool) and the limiter (package limiter) are   *)
(* configured and called by Vndb; their operations are modelled at the     *)
(* places where Vndb configures and calls them.                            *)
(*                                                                         *)
(* Spec is the program without the clock, SpecRate the program on the      *)
(* clock (limiter, acquire timeout, evictor), SpecRead the exchanges with  *)
(* every frame delivered in any split into chunks.                         *)
(***************************************************************************)
EXTENDS Integers, Sequences, FiniteSets, TLC

(***************************************************************************)
(* Bounds of the model.                                                    *)
(***************************************************************************)
\* number of send() calls issued by the callers: three, so that a call can
\* hold the only Connection while two more wait, and so that a third request
\* can reach the limiter while an earlier one waits for its token
MaxSends == 3
\* number of Connection objects the pool factory constructs in one run
MaxConn == 2
\* poolConfig.max: the source fixes it to 10; the model scales the cap down
\* so that MaxSends concurrent calls reach it
PoolMax == 1
\* the values of settings.poolMin the callers configure
PoolMins == {0, 1}
\* the values of settings.rateLimit the callers configure
RateLimits == {1, 2}
\* settings.rateInterval, in ticks of the clock
RateInterval == 3
\* the last tick of the clock
MaxTime == 7
\* poolConfig.acquireTimeoutMillis (2000 ms), in ticks of the clock
AcquireTimeoutMillis == 1
\* poolConfig.softIdleTimeoutMillis: settings.poolTimeout (by default 30000
\* ms), in ticks of the clock
PoolTimeout == 2
\* the pool's idleTimeoutMillis, in ticks of the clock: poolConfig gives 0,
\* for which the pool takes its default (30000 ms)
IdleTimeoutMillis == 2

\* this.eot = '\x04'
EOT == "EOT"

None == 0
Sends == 1..MaxSends
Conns == 1..MaxConn

\* the frames of the server: the acknowledgment of a login ('ok' and the
\* terminator), the refusal of a login, and the response to the command
Ack == <<"o", "k", EOT>>

Refusal == <<"e", EOT>>

Response == <<"r", "s", EOT>>

\* frames delivered as one chunk
Frames == { Ack, Refusal, Response }

\* the chunks a transport may deliver a frame in: its contiguous pieces
Chunks ==
    UNION { UNION { { SubSeq(f, i, j) : j \in i..Len(f) } : i \in 1..Len(f) } : f \in Frames }

\* errors that are no frame of the server
TransportError == <<"error">>

UnauthorizedConnection == <<"UNAUTHORIZED_CONNECTION">>

VARIABLES
    pool,      \* the generic-pool Pool owned by Vndb
    conn,      \* the Connection objects, by order of construction
    send,      \* the send() calls
    nextConn,  \* the next Connection to construct
    dstate,    \* Vndb.destroy(): "idle", "draining" or "resolved"
    limiter,   \* the RateLimiter owned by Vndb
    now        \* the clock, in ticks

vars == <<pool, conn, send, nextConn, dstate, limiter, now>>

(***************************************************************************)
(* Helpers on sequences                                                    *)
(***************************************************************************)
Min2(a, b) == IF a < b THEN a ELSE b

Max2(a, b) == IF a > b THEN a ELSE b

SeqSet(q) == { q[i] : i \in DOMAIN q }

Remove(q, x) == SelectSeq(q, LAMBDA y : y # x)

\* String.prototype.endsWith(this.eot)
EndsWith(chunk, ch) == Len(chunk) > 0 /\ chunk[Len(chunk)] = ch

IsPrefix(p, f) == Len(p) <= Len(f) /\ p = SubSeq(f, 1, Len(p))

(***************************************************************************)
(* The state a callback works on, as one record, so that the calls a       *)
(* callback makes compose.  ok turns FALSE when a call needs a Connection  *)
(* beyond MaxConn: such a step is outside the bounds of the model.         *)
(***************************************************************************)
World == [pool |-> pool, conn |-> conn, send |-> send, nextConn |-> nextConn, ok |-> TRUE]

Commit(w) ==
    /\ w.ok
    /\ pool' = w.pool
    /\ conn' = w.conn
    /\ send' = w.send
    /\ nextConn' = w.nextConn

\* new Connection(client): no socket yet
NewConnection ==
    [sock |-> "none", st |-> "new", authorized |-> FALSE, loggedIn |-> FALSE,
     chunk |-> <<>>, parts |-> 0, err |-> <<>>, werr |-> FALSE, failed |-> FALSE,
     lastIdleTime |-> 0]

\* a send() call that has not been made yet
NewSend ==
    [pc |-> "new", client |-> None, got |-> FALSE, result |-> "pending", err |-> "none",
     wtime |-> -1, released |-> 0, uncaught |-> 0, late |-> FALSE, due |-> -1,
     adue |-> -1, response |-> <<>>, parts |-> 0]

(***************************************************************************)
(* Connection                                                              *)
(***************************************************************************)
\* Connection.connect up to tls.connect(...): the handshake is under way
ConnConnect(cn) == [cn EXCEPT !.sock = "connecting", !.st = "connect"]

\* Connection.read up to the registration of the listeners: chunk = ''
ConnRead(cn) == [cn EXCEPT !.chunk = <<>>, !.parts = 0]

\* Connection.write: socket.write(message + eot).  A write on a socket that
\* ended or failed leaves a failure the transport may report as an 'error'
\* event.
ConnWrite(cn) == IF cn.sock = "open" THEN cn ELSE [cn EXCEPT !.werr = TRUE]

\* the callback of tls.connect: the handshake is over
ConnSecureConnect(cn, authorized) == [cn EXCEPT !.sock = "open", !.authorized = authorized]

\* Connection.connect resolves when this.socket.authorized, else it rejects
ConnectResolves(cn) == cn.authorized

\* Connection.login up to await this.read(): the login command is written
\* and the read for the answer starts
ConnLogin(cn) == [ConnRead(ConnWrite(cn)) EXCEPT !.st = "login"]

\* a 'data' listener that keeps the last chunk only
ConnDataLast(cn, data) == [cn EXCEPT !.chunk = data, !.parts = @ + 1]

\* the 'data' listener of Connection.read: chunk += data.toString()
ConnData(cn, data) == [cn EXCEPT !.chunk = @ \o data, !.parts = @ + 1]

\* the read resolves with chunk when chunk.endsWith(this.eot)
ReadResolves(cn) == EndsWith(cn.chunk, EOT)

\* Connection.destroy: once('end', resolve); socket.end().  An open socket
\* starts its graceful close; a socket that already ended or failed emits no
\* further 'end', so the promise stays pending.
ConnDestroy(cn) == IF cn.sock = "open" THEN [cn EXCEPT !.sock = "ending"] ELSE cn

\* a login that takes any terminated frame for the acknowledgment
LoginOkAnyFrame(response) == EndsWith(response, EOT)

\* the comparison of Connection.login: response === `ok${this.eot}`
LoginOk(response) == response = Ack

\* a login that rejects with an error of its own
ConnLoginRejectGeneric(cn, response) == [cn EXCEPT !.err = <<"LOGIN_FAILED">>]

\* Connection.login, response not the acknowledgment: reject(response)
ConnLoginReject(cn, response) == [cn EXCEPT !.err = response]

\* the frames the server may answer the pending read of cn with
Replies(cn) == IF cn.st = "login" THEN {Ack, Refusal} ELSE {Response}

(***************************************************************************)
(* The pool: factory, dispense, release, destroy                           *)
(***************************************************************************)
\* a capacity that forgets the Connections still being created
SpareCapacityOfCreated(w) == PoolMax - Cardinality(w.pool.allObjects)

\* pool.spareResourceCapacity with poolConfig.max
SpareResourceCapacity(w) ==
    PoolMax - (Cardinality(w.pool.allObjects) + Cardinality(w.pool.factoryCreateOperations))

\* factory.create: new Connection, then await client.connect()
CreateResource(w) ==
    IF w.nextConn > MaxConn
    THEN [w EXCEPT !.ok = FALSE]
    ELSE [w EXCEPT !.conn[w.nextConn] = ConnConnect(@),
                   !.pool.factoryCreateOperations = @ \cup {w.nextConn},
                   !.nextConn = @ + 1]

RECURSIVE CreateResources(_, _)
CreateResources(w, n) == IF n <= 0 THEN w ELSE CreateResources(CreateResource(w), n - 1)

\* the pool hands the first idle Connection to the first waiting acquire(),
\* whose timer is cleared
DispatchResource(w) ==
    LET c == Head(w.pool.availableObjects)
        s == Head(w.pool.waitingClientsQueue)
    IN  [w EXCEPT !.pool.availableObjects = Tail(@),
                  !.pool.waitingClientsQueue = Tail(@),
                  !.pool.resourceLoans = @ \cup {c},
                  !.send[s] = [@ EXCEPT !.pc = "acquired", !.client = c, !.got = TRUE,
                                       !.adue = -1]]

RECURSIVE DispatchResources(_, _)
DispatchResources(w, n) == IF n <= 0 THEN w ELSE DispatchResources(DispatchResource(w), n - 1)

\* the pool serves its waiting acquire() calls: create what is missing, up
\* to max, and hand out what is idle
Dispense(w) ==
    LET waiting == Len(w.pool.waitingClientsQueue)
        shortfall == waiting - (Len(w.pool.availableObjects)
                                + Cardinality(w.pool.factoryCreateOperations))
        w1 == CreateResources(w, Min2(SpareResourceCapacity(w), shortfall))
    IN  IF waiting < 1 THEN w
        ELSE DispatchResources(w1, Min2(Len(w1.pool.availableObjects), waiting))

\* the pool keeps poolConfig.min Connections alive, unless it is draining
EnsureMinimum(w) ==
    IF w.pool.draining THEN w
    ELSE CreateResources(w, w.pool.min - (Cardinality(w.pool.allObjects)
                                           + Cardinality(w.pool.factoryCreateOperations)))

\* the pool removes a Connection and runs factory.destroy on it:
\* await client.destroy()
PoolDestroy(w, c) ==
    EnsureMinimum([w EXCEPT !.pool.allObjects = @ \ {c},
                            !.pool.factoryDestroyOperations = @ \cup {c},
                            !.conn[c] = ConnDestroy(@)])

\* pool.release(client): the loan ends, the Connection is idle again and the
\* next waiting acquire() is served
PoolRelease(w, c) ==
    IF c \notin w.pool.resourceLoans THEN w
    ELSE Dispense([w EXCEPT !.pool.resourceLoans = @ \ {c},
                            !.pool.availableObjects = Append(@, c),
                            !.conn[c].lastIdleTime = now])

\* pool.clear() once no factory.create is pending: every idle Connection is
\* destroyed
RECURSIVE ClearAvailable(_)
ClearAvailable(w) ==
    IF w.pool.availableObjects = <<>> THEN w
    ELSE ClearAvailable(PoolDestroy([w EXCEPT !.pool.availableObjects = Tail(@)],
                                    Head(w.pool.availableObjects)))

\* the continuation of pool.clear(), run once the factory.create calls that
\* were pending have settled
PoolClearContinue(w) ==
    IF w.pool.clearPending /\ w.pool.factoryCreateOperations = {}
    THEN ClearAvailable([w EXCEPT !.pool.clearPending = FALSE])
    ELSE w

PoolClear(w) == PoolClearContinue([w EXCEPT !.pool.clearPending = TRUE])

\* factory.create resolved: resolve(client)
FactoryCreated(w, c) ==
    PoolClearContinue(Dispense([w EXCEPT !.conn[c].st = "ready",
                       !.conn[c].lastIdleTime = now,
                       !.pool.factoryCreateOperations = @ \ {c},
                       !.pool.allObjects = @ \cup {c},
                       !.pool.availableObjects = Append(@, c)]))

\* factory.create rejected: reject(err); the pool tries again for the
\* acquire() calls that still wait
FactoryFailed(w, c) ==
    PoolClearContinue(Dispense([w EXCEPT !.conn[c].st = "rejected",
                                         !.pool.factoryCreateOperations = @ \ {c}]))

(***************************************************************************)
(* Vndb.send                                                               *)
(***************************************************************************)
\* resolve / reject of the promise send() returned: the first one wins
Resolve(sd, cn) ==
    IF sd.result = "pending"
    THEN [sd EXCEPT !.result = "resolved", !.response = cn.chunk, !.parts = cn.parts]
    ELSE sd

Reject(sd, e) ==
    IF sd.result = "pending" THEN [sd EXCEPT !.result = "rejected", !.err = e] ELSE sd

\* the limiter's callback when pool.acquire() rejects: reject(err), and the
\* callback goes on with client undefined: client.socketID throws in the
\* second try (caught, reject again) and once more in finally, where the
\* error leaves the callback before pool.release is reached
SendAcquireFailed(w, s, e) ==
    [w EXCEPT !.send[s] = [Reject(Reject(@, e), "TypeError")
                             EXCEPT !.pc = "done", !.uncaught = @ + 1, !.adue = -1]]

\* an acquire() on a pool that takes work after it was drained
SendAcquireAfterDrain(w, s) ==
    Dispense([w EXCEPT !.send[s].pc = "acquire",
                       !.pool.waitingClientsQueue = Append(@, s)])

\* the limiter's callback: client = await this.pool.acquire().  The request
\* waits in the pool's queue, with a timer of acquireTimeoutMillis.
SendAcquire(w, s) ==
    IF w.pool.draining
    THEN SendAcquireFailed(w, s, "draining")
    ELSE Dispense([w EXCEPT !.send[s].pc = "acquire",
                            !.send[s].adue = now + AcquireTimeoutMillis,
                            !.pool.waitingClientsQueue = Append(@, s)])

\* a send that releases its Connection in the try block, after a
\* successful read only
SendSettleReleaseInTry(w, s, e) ==
    LET c == w.send[s].client
        sd == IF e = "none" THEN Resolve(w.send[s], w.conn[c]) ELSE Reject(w.send[s], e)
    IN  IF e = "none"
        THEN PoolRelease([w EXCEPT !.send[s] = [sd EXCEPT !.pc = "done", !.client = None,
                                                          !.released = @ + 1]], c)
        ELSE [w EXCEPT !.send[s] = [sd EXCEPT !.pc = "done", !.client = None],
                       !.conn[c].failed = TRUE]

\* the end of the second try: resolve(response) or reject(err), then
\* finally: this.pool.release(client)
SendSettle(w, s, e) ==
    LET c == w.send[s].client
        sd == IF e = "none" THEN Resolve(w.send[s], w.conn[c]) ELSE Reject(w.send[s], e)
    IN  PoolRelease([w EXCEPT !.send[s] = [sd EXCEPT !.pc = "done", !.client = None,
                                                     !.released = @ + 1],
                              !.conn[c].failed = @ \/ e # "none"], c)

(***************************************************************************)
(* Initial state: new Vndb(clientName, settings).  The pool starts at once *)
(* and creates settings.poolMin Connections.                               *)
(***************************************************************************)
NewPool(min) ==
    [availableObjects |-> <<>>, resourceLoans |-> {}, allObjects |-> {},
     factoryCreateOperations |-> {}, factoryDestroyOperations |-> {},
     waitingClientsQueue |-> <<>>, draining |-> FALSE, clearPending |-> FALSE,
     min |-> min]

Constructed(min) ==
    EnsureMinimum([pool |-> NewPool(min), conn |-> [c \in Conns |-> NewConnection],
                   send |-> [s \in Sends |-> NewSend], nextConn |-> 1, ok |-> TRUE])

\* new RateLimiter(this.rateLimit, this.rateInterval): a token bucket of
\* rateLimit tokens, full at the start.  content counts in units of
\* 1/RateInterval token, the amount that drips in per tick and token of
\* rateLimit.
NewLimiter(rateLimit) ==
    [tokensPerInterval |-> rateLimit, content |-> rateLimit * RateInterval, lastDrip |-> 0,
     curIntervalStart |-> 0, tokensThisInterval |-> 0]

Init ==
    \E min \in PoolMins, rateLimit \in RateLimits :
        /\ pool = Constructed(min).pool
        /\ conn = Constructed(min).conn
        /\ send = Constructed(min).send
        /\ nextConn = Constructed(min).nextConn
        /\ dstate = "idle"
        /\ limiter = NewLimiter(rateLimit)
        /\ now = 0

(***************************************************************************)
(* Actions of the callers                                                  *)
(***************************************************************************)
\* The continuation of a resolved acquire() (await this.pool.acquire()) runs
\* before the event loop takes the next callback, timer or transport event.
NoContinuation == \A s \in Sends : send[s].pc # "acquired"

\* vndb.send(message): this.limiter.removeTokens(1, callback)
SendCall(s) ==
    /\ NoContinuation
    /\ send[s].pc = "new"
    /\ \A t \in Sends : t < s => send[t].pc # "new"
    /\ send' = [send EXCEPT ![s].pc = "token", ![s].late = (dstate = "resolved")]
    /\ UNCHANGED <<pool, conn, nextConn, dstate, limiter, now>>

\* the limiter grants the token and runs the callback of send
TokenGranted(s) ==
    /\ NoContinuation
    /\ send[s].pc = "token"
    /\ Commit(SendAcquire(World, s))
    /\ UNCHANGED <<dstate, limiter, now>>

\* a send that does not await the read: the Connection is released while
\* the read is pending
SendExchangeNoAwait(s, thrown) ==
    /\ send[s].pc = "acquired"
    /\ ~thrown
    /\ LET c == send[s].client
       IN  Commit(PoolRelease([World EXCEPT !.send[s].wtime = now,
                                            !.send[s].pc = "reading",
                                            !.send[s].released = @ + 1], c))
    /\ UNCHANGED <<dstate, limiter, now>>

\* pool.acquire() resolved: client.write(message); await client.read().
\* A write on a socket that ended or failed either throws at once (write
\* after end: catch, reject, finally release) or returns, and the failure,
\* if any is reported, comes as an 'error' event.
SendExchange(s, thrown) ==
    /\ send[s].pc = "acquired"
    /\ thrown => conn[send[s].client].sock # "open"
    /\ LET c == send[s].client
           w == [World EXCEPT !.send[s].wtime = now,
                              !.conn[c] = ConnWrite(@)]
       IN  IF thrown
           THEN Commit(SendSettle(w, s, "write"))
           ELSE Commit([w EXCEPT !.send[s].pc = "reading", !.conn[c] = ConnRead(@)])
    /\ UNCHANGED <<dstate, limiter, now>>

\* a timeout that rejects one acquire() and drops every other waiting one
AcquireTimeoutDropsQueue(s) ==
    /\ NoContinuation
    /\ send[s].pc = "acquire"
    /\ Commit(SendAcquireFailed([World EXCEPT !.pool.waitingClientsQueue = <<>>], s, "timeout"))
    /\ UNCHANGED <<dstate, limiter, now>>

\* acquireTimeoutMillis elapsed for a waiting acquire(): it rejects
AcquireTimeout(s) ==
    /\ NoContinuation
    /\ send[s].pc = "acquire"
    /\ Commit(SendAcquireFailed(
            [World EXCEPT !.pool.waitingClientsQueue = Remove(@, s)], s, "timeout"))
    /\ UNCHANGED <<dstate, limiter, now>>

(***************************************************************************)
(* Events of the transports                                                *)
(***************************************************************************)
\* the sends whose read is pending on Connection c
Readers(w, c) == { s \in Sends : w.send[s].pc = "reading" /\ w.send[s].client = c }

\* the reads pending on Connection c: the one of login and those of sends
PendingReads(w, c) ==
    Cardinality(Readers(w, c)) + (IF w.conn[c].st = "login" THEN 1 ELSE 0)

RECURSIVE SettleAll(_, _, _)
SettleAll(w, ss, e) ==
    IF ss = {} THEN w
    ELSE LET s == CHOOSE x \in ss : \A y \in ss : x <= y
         IN  SettleAll(SendSettle(w, s, e), ss \ {s}, e)

\* the read pending on c resolves with response (the listeners are removed,
\* the accumulated chunk is dropped): login compares the response with the
\* acknowledgment and the factory resolves or rejects; a send resolves
ReadResolved(w, c, response) ==
    LET w1 == [w EXCEPT !.conn[c].chunk = <<>>, !.conn[c].parts = 0]
    IN  IF w.conn[c].st = "login"
        THEN IF LoginOk(response)
             THEN FactoryCreated([w1 EXCEPT !.conn[c].loggedIn = (response = Ack)], c)
             ELSE FactoryFailed([w1 EXCEPT !.conn[c] = ConnLoginReject(@, response)], c)
        ELSE [SettleAll(w, Readers(w, c), "none")
                EXCEPT !.conn[c].chunk = <<>>, !.conn[c].parts = 0]

\* the read pending on c rejects with the transport's error
ReadRejected(w, c) ==
    LET w1 == [w EXCEPT !.conn[c].chunk = <<>>, !.conn[c].parts = 0]
    IN  IF w.conn[c].st = "login"
        THEN FactoryFailed([w1 EXCEPT !.conn[c].err = TransportError], c)
        ELSE SettleAll(w1, Readers(w, c), "transport")

\* The factory constructs at most MaxConn Connections in a run.  An event
\* that makes the pool create a Connection again (a failed creation, an
\* eviction) is taken only while enough Connections remain for the send()
\* calls that have not reached pool.acquire() yet.
Reserve ==
    MaxConn - (nextConn - 1) > Cardinality({ s \in Sends : send[s].pc \in {"new", "token"} })

\* the callback of tls.connect runs: resolve('ok') and the factory goes on
\* with client.login, or reject(UNAUTHORIZED_CONNECTION)
ConnectCallback(c, authorized) ==
    /\ NoContinuation
    /\ conn[c].sock = "connecting"
    /\ authorized \/ Reserve
    /\ LET w == [World EXCEPT !.conn[c] = ConnSecureConnect(@, authorized)]
       IN  IF ConnectResolves(w.conn[c])
           THEN Commit([w EXCEPT !.conn[c] = ConnLogin(@)])
           ELSE Commit(FactoryFailed([w EXCEPT !.conn[c].err = UnauthorizedConnection], c))
    /\ UNCHANGED <<dstate, limiter, now>>

\* 'error' during the handshake: reject(err)
ConnectError(c) ==
    /\ NoContinuation
    /\ conn[c].sock = "connecting"
    /\ Reserve
    /\ Commit(FactoryFailed([World EXCEPT !.conn[c].sock = "dead",
                                          !.conn[c].err = TransportError], c))
    /\ UNCHANGED <<dstate, limiter, now>>

\* 'data' on a socket with a read pending: a chunk of the frame the server
\* answers with
OnData(c, data) ==
    /\ NoContinuation
    /\ conn[c].sock = "open"
    /\ PendingReads(World, c) > 0
    /\ \E f \in Replies(conn[c]) : IsPrefix(conn[c].chunk \o data, f)
    /\ (conn[c].st = "login" /\ conn[c].chunk \o data = Refusal) => Reserve
    /\ LET w == [World EXCEPT !.conn[c] = ConnData(@, data)]
       IN  IF ReadResolves(w.conn[c])
           THEN Commit(ReadResolved(w, c, w.conn[c].chunk))
           ELSE Commit(w)
    /\ UNCHANGED <<dstate, limiter, now>>

\* an 'error' that rejects the pending read and leaves the socket open
OnErrorStaysOpen(c) ==
    /\ NoContinuation
    /\ conn[c].sock = "open"
    /\ PendingReads(World, c) > 0
    /\ conn[c].st = "login" => Reserve
    /\ Commit(ReadRejected(World, c))
    /\ UNCHANGED <<dstate, limiter, now>>

\* 'error' on a socket with a read pending: the socket is dead afterwards
OnError(c) ==
    /\ NoContinuation
    /\ conn[c].sock = "open" \/ (conn[c].sock = "dead" /\ conn[c].werr)
    /\ PendingReads(World, c) > 0
    /\ conn[c].st = "login" => Reserve
    /\ Commit(ReadRejected([World EXCEPT !.conn[c].sock = "dead", !.conn[c].werr = FALSE], c))
    /\ UNCHANGED <<dstate, limiter, now>>

\* the peer closes the transport: 'end', for which read has no listener
PeerClose(c) ==
    /\ NoContinuation
    /\ conn[c].sock = "open"
    /\ conn' = [conn EXCEPT ![c].sock = "dead"]
    /\ UNCHANGED <<pool, send, nextConn, dstate, limiter, now>>

\* 'end' after socket.end(): Connection.destroy resolves, and with it
\* factory.destroy
OnEnd(c) ==
    /\ NoContinuation
    /\ conn[c].sock = "ending"
    /\ conn' = [conn EXCEPT ![c].sock = "closed"]
    /\ pool' = [pool EXCEPT !.factoryDestroyOperations = @ \ {c}]
    /\ UNCHANGED <<send, nextConn, dstate, limiter, now>>

(***************************************************************************)
(* The pool's evictor and Vndb.destroy                                     *)
(***************************************************************************)
\* an eviction run (evictionRunIntervalMillis) finds idle Connection c
\* idle for too long and destroys it
Evict(c) ==
    /\ NoContinuation
    /\ dstate # "resolved"
    /\ c \in SeqSet(pool.availableObjects)
    /\ Reserve
    /\ Commit(PoolDestroy([World EXCEPT !.pool.availableObjects = Remove(@, c)], c))
    /\ UNCHANGED <<dstate, limiter, now>>

\* vndb.destroy(): await this.pool.drain() starts
DestroyCall ==
    /\ NoContinuation
    /\ dstate = "idle"
    /\ dstate' = "draining"
    /\ pool' = [pool EXCEPT !.draining = TRUE]
    /\ UNCHANGED <<conn, send, nextConn, limiter, now>>

\* a drain that does not wait for the Connections on loan
DrainDoneEarly ==
    /\ NoContinuation
    /\ dstate = "draining"
    /\ pool.waitingClientsQueue = <<>>
    /\ Commit(PoolClear(World))
    /\ dstate' = "resolved"
    /\ UNCHANGED <<limiter, now>>

\* pool.drain() resolved (no acquire() waits, every loan is returned):
\* this.pool.clear(); resolve('ok')
DrainDone ==
    /\ NoContinuation
    /\ dstate = "draining"
    /\ pool.waitingClientsQueue = <<>>
    /\ pool.resourceLoans = {}
    /\ Commit(PoolClear(World))
    /\ dstate' = "resolved"
    /\ UNCHANGED <<limiter, now>>

Next ==
    \/ \E s \in Sends : SendCall(s)
    \/ \E s \in Sends : TokenGranted(s)
    \/ \E s \in Sends, thrown \in BOOLEAN : SendExchange(s, thrown)
    \/ \E s \in Sends : AcquireTimeout(s)
    \/ \E c \in Conns, authorized \in BOOLEAN : ConnectCallback(c, authorized)
    \/ \E c \in Conns : ConnectError(c)
    \/ \E c \in Conns, data \in Frames : OnData(c, data)
    \/ \E c \in Conns : OnError(c)
    \/ \E c \in Conns : PeerClose(c)
    \/ \E c \in Conns : OnEnd(c)
    \/ \E c \in Conns : Evict(c)
    \/ DestroyCall
    \/ DrainDone

Spec == Init /\ [][Next]_vars

\* no step of the program is cut off by MaxConn
WithinBounds ==
    /\ \A s \in Sends : send[s].pc = "token" => SendAcquire(World, s).ok
    /\ \A s \in Sends : send[s].pc = "reading" => SendSettle(World, s, "none").ok

(***************************************************************************)
(* The limiter on the clock: this.limiter.removeTokens(1, callback)        *)
(***************************************************************************)
\* the bucket drips: tokensPerInterval tokens per interval, up to its size
Drip(lim, t) ==
    [lim EXCEPT !.content = Min2(@ + Max2(t - lim.lastDrip, 0) * lim.tokensPerInterval,
                                 lim.tokensPerInterval * RateInterval),
                !.lastDrip = t]

\* the bucket is asked for one token at time t: after the drip, the token
\* is taken (wait 0) or the request comes back after the time the missing
\* part takes to drip in, rounded up
BucketRemoveTokens(lim, t) ==
    LET d == Drip(lim, t)
        missing == RateInterval - d.content
    IN  IF d.content < RateInterval
        THEN [lim |-> d,
              wait |-> (missing + d.tokensPerInterval - 1) \div d.tokensPerInterval]
        ELSE [lim |-> [d EXCEPT !.content = @ - RateInterval,
                                !.tokensThisInterval = @ + 1],
              wait |-> 0]

\* the limiter is asked for one token at time t: a new interval starts when
\* the current one is over; when the interval has no token left the request
\* waits for the next interval and asks the bucket then
LimiterRemoveTokens(lim, t) ==
    LET l == IF t - lim.curIntervalStart >= RateInterval
             THEN [lim EXCEPT !.curIntervalStart = t, !.tokensThisInterval = 0]
             ELSE lim
    IN  IF 1 > l.tokensPerInterval - l.tokensThisInterval
        THEN [lim |-> l, wait |-> l.curIntervalStart + RateInterval - t]
        ELSE BucketRemoveTokens(l, t)

\* the answer r of the limiter for send s: the callback of send runs, or a
\* timer is set
Limited(s, r) ==
    /\ limiter' = r.lim
    /\ IF r.wait = 0
       THEN Commit(SendAcquire(World, s))
       ELSE /\ send' = [send EXCEPT ![s].pc = "token", ![s].due = now + r.wait]
            /\ UNCHANGED <<pool, conn, nextConn>>

\* vndb.send(message) at time now
SendCallTimed(s) ==
    /\ NoContinuation
    /\ send[s].pc = "new"
    /\ \A t \in Sends : t < s => send[t].pc # "new"
    /\ Limited(s, LimiterRemoveTokens(limiter, now))
    /\ UNCHANGED <<dstate, now>>

\* the timer of a waiting request fires: the bucket is asked again
TimerFire(s) ==
    /\ NoContinuation
    /\ send[s].pc = "token"
    /\ send[s].due = now
    /\ Limited(s, BucketRemoveTokens(limiter, now))
    /\ UNCHANGED <<dstate, now>>

\* the timer of a waiting acquire() fires at its deadline
AcquireExpired(s) ==
    /\ send[s].adue <= now
    /\ AcquireTimeout(s)

\* the pool's evictor on idle Connection c: idle for longer than the soft
\* timeout with more than min Connections idle, or idle for longer than the
\* idle timeout
ShouldEvict(w, c) ==
    LET idleTime == now - w.conn[c].lastIdleTime
    IN  \/ /\ PoolTimeout > 0
           /\ PoolTimeout < idleTime
           /\ w.pool.min < Len(w.pool.availableObjects)
        \/ IdleTimeoutMillis < idleTime

\* an eviction run (every evictionRunIntervalMillis) tests idle Connection
\* c and destroys it
EvictionRun(c) ==
    /\ NoContinuation
    /\ c \in SeqSet(pool.availableObjects)
    /\ ShouldEvict(World, c)
    /\ Reserve
    /\ Commit(PoolDestroy([World EXCEPT !.pool.availableObjects = Remove(@, c)], c))
    /\ UNCHANGED <<dstate, limiter, now>>

\* the clock advances when no timer is due and no continuation of a
\* resolved acquire() is left to run
Tick ==
    /\ now < MaxTime
    /\ \A s \in Sends : send[s].pc = "token" => send[s].due > now
    /\ \A s \in Sends : send[s].pc = "acquire" => send[s].adue > now
    /\ NoContinuation
    /\ now' = now + 1
    /\ UNCHANGED <<pool, conn, send, nextConn, dstate, limiter>>

NextRate ==
    \/ \E s \in Sends : SendCallTimed(s)
    \/ \E s \in Sends : TimerFire(s)
    \/ \E s \in Sends : AcquireExpired(s)
    \/ \E c \in Conns : EvictionRun(c)
    \/ \E c \in Conns : OnEnd(c)
    \/ Tick
    \/ \E s \in Sends : SendExchange(s, FALSE)
    \/ \E c \in Conns : ConnectCallback(c, TRUE)
    \/ \E c \in Conns, data \in Frames : OnData(c, data)

SpecRate == Init /\ [][NextRate]_vars

(***************************************************************************)
(* The exchanges with the transport delivering each frame in any split     *)
(***************************************************************************)
NextRead ==
    \/ \E s \in Sends : SendCall(s)
    \/ \E s \in Sends : TokenGranted(s)
    \/ \E s \in Sends : SendExchange(s, FALSE)
    \/ \E c \in Conns : ConnectCallback(c, TRUE)
    \/ \E c \in Conns, data \in Chunks : OnData(c, data)
    \/ \E c \in Conns : OnError(c)

SpecRead == Init /\ [][NextRead]_vars

(***************************************************************************)
(* Properties                                                              *)
(***************************************************************************)
Idle == SeqSet(pool.availableObjects)

InUse == pool.resourceLoans

\* the sends that hold Connection c: acquire() resolved, release not reached
Holders(c) == { s \in Sends : send[s].client = c /\ send[s].pc \in {"acquired", "reading"} }

AcquireErrors == {"timeout", "draining"}

\* the commands written to a transport from time t on, for one interval
WrittenIn(t) == { s \in Sends : send[s].wtime >= t /\ send[s].wtime < t + RateInterval }

\* C1: in any window of length rateInterval at most rateLimit commands are
\* written to a transport
C1_WritesWithinRate ==
    \A t \in 0..now : Cardinality(WrittenIn(t)) <= limiter.tokensPerInterval

\* C2: in every reachable state the idle set and the in-use set of the pool
\* are disjoint, no Connection is idle twice, and |idle| + |in-use| <= max
C2_PoolInvariant ==
    /\ Idle \cap InUse = {}
    /\ Cardinality(Idle) = Len(pool.availableObjects)
    /\ Cardinality(Idle) + Cardinality(InUse) <= PoolMax

\* the pool is at its cap with a Connection on loan while an acquire() waits
C2_Witness ==
    /\ Cardinality(Idle) + Cardinality(InUse) = PoolMax
    /\ InUse # {}
    /\ pool.waitingClientsQueue # <<>>

\* C3: a Connection on which a write or a read failed during a send is
\* never in the idle set afterwards
C3_FailedNeverIdle == \A c \in Idle : ~conn[c].failed

\* C4: a send that obtained a Connection from acquire() releases it exactly
\* once: never more than once, not before its exchange is over, and once
\* the callback is over (read resolved, read rejected, write failed) the
\* release has happened; a send that obtained none releases none
C4_ReleasedOnce ==
    \A s \in Sends :
        /\ send[s].released <= 1
        /\ send[s].pc \in {"acquired", "reading"} => send[s].released = 0
        /\ (send[s].pc = "done" /\ send[s].got) => send[s].released = 1
        /\ ~send[s].got => send[s].released = 0

\* one send resolved and one send rejected after a failed write, both done
C4_Witness ==
    \E s, t \in Sends :
        /\ send[s].pc = "done" /\ send[s].result = "resolved" /\ send[s].released = 1
        /\ send[t].pc = "done" /\ send[t].err = "write" /\ send[t].released = 1

\* a send rejected by a failed read has released its Connection
C4_WitnessRead ==
    \E s \in Sends :
        send[s].pc = "done" /\ send[s].err = "transport" /\ send[s].released = 1

\* C5: a send called after destroy() resolved rejects as soon as the limiter
\* runs its callback: it never waits in the pool, obtains no Connection,
\* writes nothing and ends rejected with the pool's refusal; and no
\* Connection is constructed once destroy() has resolved
C5_LateSendRejects ==
    /\ [](\A s \in Sends : send[s].late =>
            /\ send[s].pc \in {"token", "done"}
            /\ ~send[s].got /\ send[s].wtime = -1
            /\ send[s].pc = "token" =>
                   /\ SendAcquire(World, s).send[s].pc = "done"
                   /\ SendAcquire(World, s).nextConn = nextConn
            /\ send[s].pc = "done" =>
                   send[s].result = "rejected" /\ send[s].err = "draining")
    /\ [][dstate = "resolved" => nextConn' = nextConn]_vars

\* a send called after destroy() resolved has been rejected
C5_Witness ==
    \E s \in Sends : send[s].late /\ send[s].pc = "done" /\ send[s].result = "rejected"

\* every Connection that was ever in the pool has completed its close
AllClosed == \A c \in Conns : conn[c].st = "ready" => conn[c].sock = "closed"

PoolEmpty ==
    pool.allObjects = {} /\ pool.availableObjects = <<>> /\ pool.resourceLoans = {}

\* C6: at the moment destroy() resolves the pool is empty and every
\* Connection it ever held has completed its graceful close
C6_DestroyResolvesClosed ==
    [][(dstate # "resolved" /\ dstate' = "resolved") => (PoolEmpty' /\ AllClosed')]_vars

\* C7: when pool.acquire() fails inside send, send rejects with that
\* failure, writes nothing, releases nothing and raises no other error
C7_AcquireFailurePropagates ==
    \A s \in Sends : (send[s].pc = "done" /\ ~send[s].got) =>
        /\ send[s].result = "rejected" /\ send[s].err \in AcquireErrors
        /\ send[s].wtime = -1 /\ send[s].released = 0
        /\ send[s].uncaught = 0

\* C8: every send that was called settles: when nothing is left to happen
\* (no callback, timer or transport event is pending) no send is pending
C8_SendsSettle ==
    (ENABLED Next) \/ \A s \in Sends : send[s].pc = "new" \/ send[s].result # "pending"

\* C9: a Connection on loan is held by exactly one send, from acquire to
\* release, no Connection outside the in-use set is held by a send, and at
\* most one read is pending on a Connection
C9_ExclusiveUse ==
    \A c \in Conns :
        /\ Cardinality(Holders(c)) <= 1
        /\ c \in InUse <=> Holders(c) # {}
        /\ PendingReads(World, c) <= 1

\* a send reads on the only Connection while another send waits for it
C9_Witness ==
    \E s, t \in Sends :
        /\ send[s].pc = "reading"
        /\ send[t].pc = "acquire"
        /\ pool.allObjects = {send[s].client}

\* C10: a Connection is in the pool, or held by a send, only after its TLS
\* connect succeeded with a verified certificate and its login was
\* acknowledged
C10_PooledAreLoggedIn ==
    /\ \A c \in pool.allObjects \cup Idle \cup InUse :
           conn[c].authorized /\ conn[c].loggedIn
    /\ \A s \in Sends : send[s].client # None =>
           conn[send[s].client].authorized /\ conn[send[s].client].loggedIn

\* a send holds a logged-in Connection after the creation of an earlier
\* Connection was refused (certificate not verified, or login not
\* acknowledged)
C10_Witness ==
    \E s \in Sends, c \in Conns :
        /\ send[s].client # None /\ send[s].client # c
        /\ conn[c].st = "rejected" /\ conn[c].sock = "open"

\* C11: when the creation of a Connection fails in connect or in login
\* while acquire() calls wait for it (at least as many wait as creations are
\* pending), the failure reaches a waiting acquire(): one of them is rejected
\* in that step; and the failed Connection is neither idle nor on loan nor
\* counted by the pool
C11_CreationFailurePropagates ==
    /\ [](\A c \in Conns : conn[c].st = "rejected" =>
            c \notin Idle \cup InUse \cup pool.allObjects)
    /\ [][\A c \in Conns :
            (/\ conn[c].st # "rejected" /\ conn'[c].st = "rejected"
             /\ pool.waitingClientsQueue # <<>>
             /\ Len(pool.waitingClientsQueue) >= Cardinality(pool.factoryCreateOperations))
            => \E s \in SeqSet(pool.waitingClientsQueue) : send'[s].result = "rejected"]_vars

\* C12: an acquire() that finds no idle Connection and no capacity waits in
\* the pool's queue, pending, until it is handed a Connection that was
\* released or created in that step, or until its deadline; at the deadline
\* and not before it rejects with the pool's timeout, and that step changes
\* no other send, no Connection and nothing of the pool but the queue entry
C12_AcquireTimesOut ==
    /\ [](\A s \in Sends : send[s].pc = "acquire" =>
            /\ s \in SeqSet(pool.waitingClientsQueue)
            /\ send[s].result = "pending"
            /\ now <= send[s].adue)
    /\ [][\A s \in Sends : (send[s].pc = "acquire" /\ send'[s].pc # "acquire") =>
            \/ /\ send'[s].pc = "acquired"
               /\ send'[s].client \in InUse' \ Idle
               /\ \A t \in Sends \ {s} : send'[t].client # send'[s].client
            \/ /\ send'[s].pc = "done"
               /\ now = send[s].adue
               /\ send'[s].result = "rejected" /\ send'[s].err = "timeout"
               /\ \A t \in Sends \ {s} : send'[t] = send[t]
               /\ conn' = conn
               /\ pool' = [pool EXCEPT !.waitingClientsQueue = Remove(@, s)]]_vars

\* the pool is at its cap with its Connections on loan, one acquire() was
\* rejected at its deadline and another one still waits
C12_Witness ==
    \E s, t, u \in Sends :
        /\ send[s].pc = "reading" /\ InUse = pool.allObjects
        /\ Cardinality(InUse) = PoolMax /\ Idle = {}
        /\ send[t].pc = "done" /\ send[t].err = "timeout" /\ ~send[t].got
        /\ send[u].pc = "acquire"

\* C13: a read is pending exactly as long as the chunks received since it
\* started do not end with the terminator, and it resolves with their whole
\* concatenation, terminator included: however the transport splits the
\* server's response, the send that wrote the command resolves with that
\* response and its terminator
C13_ReadWholeFrame ==
    /\ \A c \in Conns : PendingReads(World, c) > 0 => ~EndsWith(conn[c].chunk, EOT)
    /\ \A c \in Conns : PendingReads(World, c) = 0 => conn[c].chunk = <<>>
    /\ \A s \in Sends : send[s].result = "resolved" =>
           send[s].response = Response /\ EndsWith(send[s].response, EOT)
    /\ \A s \in Sends : send[s].result # "resolved" => send[s].response = <<>>

\* a send resolved with the whole response, which arrived in three chunks
C13_Witness ==
    \E s \in Sends :
        send[s].result = "resolved" /\ send[s].response = Response /\ send[s].parts = 3

\* C14: a login resolves (the Connection enters the pool) only after the
\* response that is exactly the acknowledgment; after any other response it
\* rejects with that response, terminator included, as the error, and after
\* a transport error during the wait it rejects with that error
C14_LoginOutcome ==
    \A c \in Conns :
        /\ conn[c].st = "ready" => conn[c].loggedIn /\ conn[c].err = <<>>
        /\ (conn[c].st = "rejected" /\ conn[c].authorized) =>
               IF conn[c].sock = "open"
               THEN conn[c].err = Refusal /\ conn[c].err # Ack
               ELSE conn[c].err = TransportError
        /\ conn[c].st = "login" => conn[c].err = <<>> /\ conn[c].chunk # Ack

\* one login was refused and rejected with the server's response, and
\* another one was acknowledged
C14_Witness ==
    \E c, d \in Conns :
        /\ conn[c].st = "rejected" /\ conn[c].err = Refusal
        /\ conn[d].st = "ready" /\ conn[d].loggedIn

Granted == { s \in Sends : send[s].pc \notin {"new", "token"} }

\* C16: the limiter grants tokens in the order of the requests: a send whose
\* request came later (the calls are made in the order of Sends) is never
\* granted its token while an earlier request still waits
C16_GrantsInArrivalOrder ==
    \A a, b \in Sends : (a < b /\ b \in Granted) => a \in Granted

\* C17: destroy() destroys no Connection that a send holds: a Connection on
\* loan is not being closed, a Connection enters factory.destroy only when
\* it is not on loan and held by no send, and when destroy() resolves every
\* loan has been returned by its send
C17_DestroyAfterRelease ==
    /\ [](\A c \in InUse : /\ c \notin pool.factoryDestroyOperations
                           /\ conn[c].sock \notin {"ending", "closed"})
    /\ [](dstate = "resolved" => InUse = {} /\ \A c \in Conns : Holders(c) = {})
    /\ [][\A c \in Conns :
            (c \notin pool.factoryDestroyOperations /\ c \in pool.factoryDestroyOperations')
            => c \notin InUse /\ Holders(c) = {}]_vars

\* destroy() was called and waits while a send reads on a Connection on
\* loan, which is open
C17_Witness ==
    \E s \in Sends :
        /\ dstate = "draining"
        /\ send[s].pc = "reading" /\ send[s].client \in InUse
        /\ conn[send[s].client].sock = "open"

\* C18: the evictor removes a Connection from the pool only if it is idle,
\* has been idle for longer than poolTimeout, and |idle| + |in-use| is at
\* least the configured minimum after the removal; a Connection that is
\* being closed or is closed is held by no send
C18_EvictionKeepsMinimum ==
    /\ [](\A s \in Sends : send[s].client # None =>
            conn[send[s].client].sock \notin {"ending", "closed"})
    /\ [][\A c \in Conns : (c \in pool.allObjects /\ c \notin pool.allObjects') =>
            /\ c \in Idle
            /\ now - conn[c].lastIdleTime > PoolTimeout
            /\ Cardinality(Idle') + Cardinality(InUse') >= pool.min]_vars

\* the transports the factory opened (the TLS handshake succeeded with a
\* verified certificate) that are not closed and not torn down
OpenTransports == { c \in Conns : conn[c].authorized /\ conn[c].sock \in {"open", "ending"} }

\* the Connections the pool owns: pooled, being created, being destroyed
PoolOwned ==
    pool.allObjects \cup pool.factoryCreateOperations \cup pool.factoryDestroyOperations

\* C19: the transports opened and not yet closed never exceed the cap of
\* the pool, and each of them belongs to a Connection the pool owns
C19_TransportsBounded ==
    /\ OpenTransports \subseteq PoolOwned
    /\ Cardinality(OpenTransports) <= PoolMax

\* C20: when nothing is left to happen (no callback, timer or transport
\* event is pending), no factory.destroy is pending, and destroy(), if it
\* was called, has resolved unless a send that was called is still unsettled
C20_DestroyCompletes ==
    \/ ENABLED Next
    \/ /\ pool.factoryDestroyOperations = {}
       /\ dstate = "draining" =>
              \E s \in Sends : send[s].pc # "new" /\ send[s].result = "pending"

====
